---- MODULE Spec2Model ----
(***************************************************************************)
(* The dbml management command of django-dbml                              *)
(* (django_dbml/management/commands/dbml.py): model metadata of the        *)
(* installed apps in, a DBML document out.                                 *)
(*                                                                         *)
(* Python strings are modelled as sequences of one-character strings, so   *)
(* that split, replace, lower, concatenation and str ordering are          *)
(* computed the way the code computes them.                                *)
(***************************************************************************)
EXTENDS Integers, Sequences, FiniteSets, TLC

(***************************************************************************)
(* Bounds of the model.                                                    *)
(***************************************************************************)
\* longest list of app_label[.ModelName] arguments on the command line
MaxSelectors == 2
\* latest minute the wall clock can show when a run reads it
MaxClock == 1
\* most words in the name of a field class
MaxWords == 2

(***************************************************************************)
(* str                                                                     *)
(***************************************************************************)
Upper == <<"A","B","C","D","E","F","G","H","I","J","K","L","M",
           "N","O","P","Q","R","S","T","U","V","W","X","Y","Z">>

Lower == <<"a","b","c","d","e","f","g","h","i","j","k","l","m",
           "n","o","p","q","r","s","t","u","v","w","x","y","z">>

Digits == <<"0","1","2","3","4","5","6","7","8","9">>

IsUpper(c) == \E i \in DOMAIN Upper : Upper[i] = c

PosIn(seq, c) == CHOOSE i \in DOMAIN seq : seq[i] = c

\* the characters of names, with their code points
CodePoint ==
    [c \in {Upper[i] : i \in DOMAIN Upper} |-> 64 + PosIn(Upper, c)]
    @@ [c \in {Lower[i] : i \in DOMAIN Lower} |-> 96 + PosIn(Lower, c)]
    @@ [c \in {Digits[i] : i \in DOMAIN Digits} |-> 47 + PosIn(Digits, c)]
    @@ ("." :> 46) @@ ("_" :> 95) @@ ("," :> 44) @@ ("-" :> 45) @@ (">" :> 62)

\* ord(c)
Ord(c) == CodePoint[c]

\* c.lower()
LowerOf ==
    [c \in DOMAIN CodePoint |-> IF IsUpper(c) THEN Lower[PosIn(Upper, c)] ELSE c]

LowerChar(c) == LowerOf[c]

\* str.lower()
StrLower(s) == [i \in DOMAIN s |-> LowerChar(s[i])]

\* c in s
Contains(s, c) == \E i \in DOMAIN s : s[i] = c

RECURSIVE StrLessFrom(_, _, _)
StrLessFrom(a, b, k) ==
    IF k > Len(b) THEN FALSE
    ELSE IF k > Len(a) THEN TRUE
    ELSE IF a[k] = b[k] THEN StrLessFrom(a, b, k + 1)
    ELSE Ord(a[k]) < Ord(b[k])

\* a < b on str: the first differing code point decides, a proper prefix is smaller
StrLess(a, b) == StrLessFrom(a, b, 1)

StrLeq(a, b) == a = b \/ StrLess(a, b)

RECURSIVE Split(_, _)
\* s.split(c) for a one-character separator
Split(s, c) ==
    IF ~Contains(s, c) THEN <<s>>
    ELSE LET i == CHOOSE k \in DOMAIN s : s[k] = c /\ \A j \in 1..(k - 1) : s[j] # c
         IN  <<SubSeq(s, 1, i - 1)>> \o Split(SubSeq(s, i + 1, Len(s)), c)

\* s.replace(c, d, 1) for one-character c and d
ReplaceFirst(s, c, d) ==
    IF ~Contains(s, c) THEN s
    ELSE LET i == CHOOSE k \in DOMAIN s : s[k] = c /\ \A j \in 1..(k - 1) : s[j] # c
         IN  [s EXCEPT ![i] = d]

RECURSIVE Replace(_, _, _)
\* s.replace(old, new): non-overlapping occurrences, left to right
Replace(s, old, new) ==
    IF Len(s) < Len(old) THEN s
    ELSE IF SubSeq(s, 1, Len(old)) = old
         THEN new \o Replace(SubSeq(s, Len(old) + 1, Len(s)), old, new)
         ELSE <<s[1]>> \o Replace(Tail(s), old, new)

\* s.removesuffix(suffix)
RemoveSuffix(s, suffix) ==
    IF Len(s) >= Len(suffix) /\ SubSeq(s, Len(s) - Len(suffix) + 1, Len(s)) = suffix
    THEN SubSeq(s, 1, Len(s) - Len(suffix))
    ELSE s

RECURSIVE StripNewlines(_)
\* s.strip('\n')
StripNewlines(s) ==
    IF s = <<>> THEN s
    ELSE IF s[1] = "\n" THEN StripNewlines(Tail(s))
    ELSE IF s[Len(s)] = "\n" THEN StripNewlines(SubSeq(s, 1, Len(s) - 1))
    ELSE s

RECURSIVE Join(_, _)
\* sep.join(parts)
Join(parts, sep) ==
    IF parts = <<>> THEN <<>>
    ELSE IF Len(parts) = 1 THEN parts[1]
    ELSE parts[1] \o sep \o Join(Tail(parts), sep)

RECURSIVE SnakeSub(_, _)
\* snake_pattern.sub("_", value): an underscore before every upper-case letter
\* that is not at the start of the string
SnakeSub(value, i) ==
    IF i > Len(value) THEN <<>>
    ELSE (IF i > 1 /\ IsUpper(value[i]) THEN <<"_">> ELSE <<>>)
         \o <<value[i]>> \o SnakeSub(value, i + 1)

to_snake_case(value) ==
    LET v0 == StrLower(SnakeSub(value, 1))
        v1 == Replace(v0, <<"i","_","p","_">>, <<"i","p","_">>)
        v2 == Replace(v1, <<"u","_","r","_","l">>, <<"u","r","l">>)
        v3 == Replace(v2, <<"u","_","u","_","i","_","d">>, <<"u","u","i","d">>)
    IN  Replace(v3, <<"j","_","s","_","o","_","n">>, <<"j","s","o","n">>)

\* Command.map_field_type_to_dbml_type, on the class name of the field
map_field_type_to_dbml_type(cls) == to_snake_case(RemoveSuffix(cls, <<"F","i","e","l","d">>))

(***************************************************************************)
(* Sorting                                                                 *)
(***************************************************************************)
RECURSIVE InsertStr(_, _)
InsertStr(sorted, x) ==
    IF sorted = <<>> THEN <<x>>
    ELSE IF StrLess(x, sorted[1]) THEN <<x>> \o sorted
    ELSE <<sorted[1]>> \o InsertStr(Tail(sorted), x)

RECURSIVE SortedStrs(_)
\* sorted(keys) of a dict with str keys
SortedStrs(S) ==
    IF S = {} THEN <<>>
    ELSE LET x == CHOOSE y \in S : TRUE
         IN  InsertStr(SortedStrs(S \ {x}), x)

RECURSIVE InsertByName(_, _)
InsertByName(sorted, x) ==
    IF sorted = <<>> THEN <<x>>
    ELSE IF StrLess(x.name, sorted[1].name) THEN <<x>> \o sorted
    ELSE <<sorted[1]>> \o InsertByName(Tail(sorted), x)

RECURSIVE SortedByName(_)
\* sorted(indexes, key=lambda x: str(x['name'])): stable
SortedByName(seq) ==
    IF seq = <<>> THEN <<>>
    ELSE InsertByName(SortedByName(SubSeq(seq, 1, Len(seq) - 1)), seq[Len(seq)])

(***************************************************************************)
(* The model metadata the command reads (django.apps.apps): what           *)
(* Model._meta and Field expose for each model of each installed app.      *)
(* The empty string stands for None.                                       *)
(***************************************************************************)
None == <<>>

\* a django.db.models.Field of class cls, with the attributes the command reads
Field(name, cls) ==
    [name |-> name, cls |-> cls,
     null |-> FALSE, primary_key |-> FALSE, unique |-> FALSE, db_index |-> FALSE,
     has_default |-> FALSE, default |-> None,
     choices |-> <<>>, help_text |-> None, db_comment |-> None,
     model |-> None, related_model |-> None, target_field |-> None,
     through_model_name |-> None, through_auto_created |-> FALSE,
     m2m_db_table |-> None,
     m2m_column_name |-> None, m2m_reverse_name |-> None,
     m2m_target_field_name |-> None, m2m_reverse_target_field_name |-> None]

\* Field.unique: declared unique, or the primary key
FieldUnique(f) == f.unique \/ f.primary_key

\* the implicit id = AutoField(primary_key=True)
AutoId == [Field(<<"i","d">>, <<"A","u","t","o","F","i","e","l","d">>) EXCEPT !.primary_key = TRUE]

\* a reverse relation, as Model._meta.get_fields() lists it
Rel(name, cls) == Field(name, cls)

\* ForeignKey(to, on_delete): db_index defaults to True
ForeignKey(name, to, target) ==
    [Field(name, <<"F","o","r","e","i","g","n","K","e","y">>) EXCEPT
        !.db_index = TRUE, !.related_model = to, !.target_field = target]

\* OneToOneField(to, on_delete): a ForeignKey with unique=True
OneToOneField(name, to, target) ==
    [Field(name, <<"O","n","e","T","o","O","n","e","F","i","e","l","d">>) EXCEPT
        !.db_index = TRUE, !.unique = TRUE, !.related_model = to, !.target_field = target]

\* ManyToManyField(to) declared by model owner stored in db_table: Django
\* creates the intermediate model <object_name>_<name>, stored in
\* <db_table>_<name>, with a foreign key to each side
ManyToManyField(name, owner, db_table, to) ==
    [Field(name, <<"M","a","n","y","T","o","M","a","n","y","F","i","e","l","d">>) EXCEPT
        !.model = owner, !.related_model = to,
        !.through_model_name = StrLower(owner[2] \o <<"_">> \o name),
        !.through_auto_created = TRUE,
        !.m2m_db_table = db_table \o <<"_">> \o name,
        !.m2m_column_name = StrLower(owner[2]) \o <<"_","i","d">>,
        !.m2m_reverse_name = StrLower(to[2]) \o <<"_","i","d">>,
        !.m2m_target_field_name = <<"i","d">>,
        !.m2m_reverse_target_field_name = <<"i","d">>]

\* ManyToManyField(to, through=...): the intermediate model is the user's
ManyToManyThrough(name, owner, to, through_name, through_table, column, reverse) ==
    [Field(name, <<"M","a","n","y","T","o","M","a","n","y","F","i","e","l","d">>) EXCEPT
        !.model = owner, !.related_model = to,
        !.through_model_name = StrLower(through_name),
        !.m2m_db_table = through_table,
        !.m2m_column_name = column,
        !.m2m_reverse_name = reverse,
        !.m2m_target_field_name = <<"i","d">>,
        !.m2m_reverse_target_field_name = <<"i","d">>]

\* a model class: Model._meta, Model.__module__ and Model.__doc__
Model(app_label, object_name, db_table, fields) ==
    [app_label |-> app_label, object_name |-> object_name,
     module |-> app_label \o <<".","m","o","d","e","l","s">>, db_table |-> db_table,
     fields |-> fields, indexes |-> <<>>, unique_together |-> <<>>,
     doc |-> <<"doc">>, db_table_comment |-> None]

\* Options.db_table when Meta gives none
DefaultTable(app_label, object_name) == app_label \o <<"_">> \o StrLower(object_name)

Choices2(v1, l1, v2, l2) == <<[value |-> v1, label |-> l1], [value |-> v2, label |-> l2]>>

\* ---- app testapp: Category{name}, Post{title, content, category -> Category}
Category ==
    Model(<<"t","e","s","t","a","p","p">>, <<"C","a","t","e","g","o","r","y">>, DefaultTable(<<"t","e","s","t","a","p","p">>, <<"C","a","t","e","g","o","r","y">>),
          << Rel(<<"p","o","s","t">>, <<"M","a","n","y","T","o","O","n","e","R","e","l">>),
             AutoId,
             Field(<<"n","a","m","e">>, <<"C","h","a","r","F","i","e","l","d">>) >>)

Post ==
    Model(<<"t","e","s","t","a","p","p">>, <<"P","o","s","t">>, DefaultTable(<<"t","e","s","t","a","p","p">>, <<"P","o","s","t">>),
          << AutoId,
             Field(<<"t","i","t","l","e">>, <<"C","h","a","r","F","i","e","l","d">>),
             Field(<<"c","o","n","t","e","n","t">>, <<"T","e","x","t","F","i","e","l","d">>),
             ForeignKey(<<"c","a","t","e","g","o","r","y">>, <<<<"t","e","s","t","a","p","p">>, <<"C","a","t","e","g","o","r","y">>>>, <<"i","d">>) >>)

\* ---- app blog
AuthorFields ==
    << Rel(<<"p","r","o","f","i","l","e">>, <<"O","n","e","T","o","O","n","e","R","e","l">>),
       Rel(<<"a","r","t","i","c","l","e">>, <<"M","a","n","y","T","o","O","n","e","R","e","l">>),
       AutoId,
       [Field(<<"n","a","m","e">>, <<"C","h","a","r","F","i","e","l","d">>) EXCEPT !.unique = TRUE],
       [Field(<<"k","i","n","d">>, <<"C","h","a","r","F","i","e","l","d">>) EXCEPT
           !.choices = Choices2(<<"s">>, <<"S","t","a","f","f">>, <<"g">>, <<"G","u","e","s","t">>),
           !.has_default = TRUE, !.default = <<"g">>] >>

Author == Model(<<"b","l","o","g">>, <<"A","u","t","h","o","r">>, DefaultTable(<<"b","l","o","g">>, <<"A","u","t","h","o","r">>), AuthorFields)

\* class Guest(Author): class Meta: proxy = True
Guest == Model(<<"b","l","o","g">>, <<"G","u","e","s","t">>, DefaultTable(<<"b","l","o","g">>, <<"A","u","t","h","o","r">>), AuthorFields)

\* the primary key of Profile is its one-to-one link to Author
Profile ==
    Model(<<"b","l","o","g">>, <<"P","r","o","f","i","l","e">>, DefaultTable(<<"b","l","o","g">>, <<"P","r","o","f","i","l","e">>),
          << Rel(<<"b","a","d","g","e">>, <<"M","a","n","y","T","o","O","n","e","R","e","l">>),
             [OneToOneField(<<"a","u","t","h","o","r">>, <<<<"b","l","o","g">>, <<"A","u","t","h","o","r">>>>, <<"i","d">>)
                 EXCEPT !.primary_key = TRUE],
             [Field(<<"b","i","o">>, <<"T","e","x","t","F","i","e","l","d">>) EXCEPT
                 !.null = TRUE, !.help_text = <<"a","b","o","u","t">>, !.db_comment = <<"b","i","o">>] >>)

\* the target field of Badge.profile is Profile.author
Badge ==
    Model(<<"b","l","o","g">>, <<"B","a","d","g","e">>, DefaultTable(<<"b","l","o","g">>, <<"B","a","d","g","e">>),
          << AutoId,
             ForeignKey(<<"p","r","o","f","i","l","e">>, <<<<"b","l","o","g">>, <<"P","r","o","f","i","l","e">>>>, <<"a","u","t","h","o","r">>) >>)

Label ==
    Model(<<"b","l","o","g">>, <<"L","a","b","e","l">>, DefaultTable(<<"b","l","o","g">>, <<"L","a","b","e","l">>),
          << Rel(<<"a","r","t","i","c","l","e">>, <<"M","a","n","y","T","o","M","a","n","y","R","e","l">>),
             AutoId,
             Field(<<"n","a","m","e">>, <<"C","h","a","r","F","i","e","l","d">>) >>)

\* labels uses the intermediate model Django generates, editors the user's
\* Membership; class Meta gives db_table = "articles", one index and one
\* unique_together
Article ==
    [Model(<<"b","l","o","g">>, <<"A","r","t","i","c","l","e">>, <<"a","r","t","i","c","l","e","s">>,
           << AutoId,
              [Field(<<"t","i","t","l","e">>, <<"C","h","a","r","F","i","e","l","d">>) EXCEPT !.db_index = TRUE],
              ForeignKey(<<"a","u","t","h","o","r">>, <<<<"b","l","o","g">>, <<"A","u","t","h","o","r">>>>, <<"i","d">>),
              [Field(<<"s","t","a","t","u","s">>, <<"C","h","a","r","F","i","e","l","d">>) EXCEPT
                  !.choices = Choices2(<<"d">>, <<"D","r","a","f","t">>, <<"p">>, <<"P","u","b","l","i","s","h","e","d">>)],
              ManyToManyField(<<"l","a","b","e","l","s">>, <<<<"b","l","o","g">>, <<"A","r","t","i","c","l","e">>>>, <<"a","r","t","i","c","l","e","s">>,
                              <<<<"b","l","o","g">>, <<"L","a","b","e","l">>>>),
              ManyToManyThrough(<<"e","d","i","t","o","r","s">>, <<<<"b","l","o","g">>, <<"A","r","t","i","c","l","e">>>>,
                                <<<<"b","l","o","g">>, <<"A","u","t","h","o","r">>>>, <<"M","e","m","b","e","r","s","h","i","p">>,
                                DefaultTable(<<"b","l","o","g">>, <<"M","e","m","b","e","r","s","h","i","p">>),
                                <<"a","r","t","i","c","l","e","_","i","d">>, <<"a","u","t","h","o","r","_","i","d">>) >>)
     EXCEPT !.indexes = << [fields |-> <<<<"t","i","t","l","e">>>>, name |-> <<"a","r","t","_","t","i","t","l","e","_","i","d","x">>,
                            hash |-> TRUE] >>,
            !.unique_together = << <<<<"t","i","t","l","e">>, <<"a","u","t","h","o","r">>>> >>]

Membership ==
    Model(<<"b","l","o","g">>, <<"M","e","m","b","e","r","s","h","i","p">>, DefaultTable(<<"b","l","o","g">>, <<"M","e","m","b","e","r","s","h","i","p">>),
          << AutoId,
             ForeignKey(<<"a","r","t","i","c","l","e">>, <<<<"b","l","o","g">>, <<"A","r","t","i","c","l","e">>>>, <<"i","d">>),
             ForeignKey(<<"a","u","t","h","o","r">>, <<<<"b","l","o","g">>, <<"A","u","t","h","o","r">>>>, <<"i","d">>) >>)

\* ---- app my_app: the label has an underscore, and so has the name of the
\* user's intermediate model Item_Link
Item ==
    Model(<<"m","y","_","a","p","p">>, <<"I","t","e","m">>, DefaultTable(<<"m","y","_","a","p","p">>, <<"I","t","e","m">>),
          << Rel(<<"i","t","e","m","_","l","i","n","k">>, <<"M","a","n","y","T","o","O","n","e","R","e","l">>),
             AutoId,
             [Field(<<"s","t","a","t","e">>, <<"C","h","a","r","F","i","e","l","d">>) EXCEPT
                 !.choices = Choices2(<<"n">>, <<"N","e","w">>, <<"o">>, <<"O","l","d">>)],
             ManyToManyThrough(<<"r","e","l","a","t","e","d">>, <<<<"m","y","_","a","p","p">>, <<"I","t","e","m">>>>,
                               <<<<"m","y","_","a","p","p">>, <<"I","t","e","m">>>>, <<"I","t","e","m","_","L","i","n","k">>,
                               DefaultTable(<<"m","y","_","a","p","p">>, <<"I","t","e","m","_","L","i","n","k">>),
                               <<"s","r","c","_","i","d">>, <<"d","s","t","_","i","d">>) >>)

Item_Link ==
    Model(<<"m","y","_","a","p","p">>, <<"I","t","e","m","_","L","i","n","k">>, DefaultTable(<<"m","y","_","a","p","p">>, <<"I","t","e","m","_","L","i","n","k">>),
          << AutoId,
             ForeignKey(<<"s","r","c">>, <<<<"m","y","_","a","p","p">>, <<"I","t","e","m">>>>, <<"i","d">>),
             ForeignKey(<<"d","s","t">>, <<<<"m","y","_","a","p","p">>, <<"I","t","e","m">>>>, <<"i","d">>) >>)

\* class Draft(Article): class Meta: proxy = True, in the app my_app: the
\* proxy has the db_table and the fields of Article, the many-to-many fields
\* (whose model is still Article) included
Draft ==
    [Article EXCEPT !.app_label = <<"m","y","_","a","p","p">>, !.object_name = <<"D","r","a","f","t">>,
                    !.module = <<"m","y","_","a","p","p",".","m","o","d","e","l","s">>]

\* an AppConfig: its label and its models, in definition order
AppConfig(label, models) == [label |-> label, models |-> models]

TestApp == AppConfig(<<"t","e","s","t","a","p","p">>, <<Category, Post>>)

Blog == AppConfig(<<"b","l","o","g">>, <<Author, Guest, Profile, Badge, Label, Article, Membership>>)

MyApp == AppConfig(<<"m","y","_","a","p","p">>, <<Item, Item_Link, Draft>>)

\* the app registries a project may have
InstalledChoices == { <<TestApp, Blog>>, <<MyApp, TestApp, Blog>> }

\* what a user may type as one app_label[.ModelName] argument
SelectorChoices == { <<"t","e","s","t","a","p","p">>, <<"b","l","o","g",".","A","r","t","i","c","l","e">>, <<"m","i","s","s","i","n","g","a","p","p">>, <<"b","l","o","g",".","M","i","s","s","i","n","g">> }

\* settings.DATABASES['default']['ENGINE'] of the project
Engine == <<"d","j","a","n","g","o",".","d","b",".","b","a","c","k","e","n","d","s",".","s","q","l","i","t","e","3">>

(***************************************************************************)
(* Lookups of the app registry                                             *)
(***************************************************************************)
InSeq(seq, x) == \E i \in DOMAIN seq : seq[i] = x

\* whether apps.get_app_config(app_label) finds the app
IsInstalled(installed, app_label) ==
    \E i \in DOMAIN installed : installed[i].label = app_label

\* apps.get_app_config(app_label).get_models()
AppModels(installed, app_label) ==
    LET i == CHOOSE k \in DOMAIN installed : installed[k].label = app_label
    IN  installed[i].models

\* the reference to a model class
KeyOf(model) == <<model.app_label, model.object_name>>

KeysOf(models) == [i \in DOMAIN models |-> KeyOf(models[i])]

RECURSIVE Concat(_)
Concat(seqs) == IF seqs = <<>> THEN <<>> ELSE seqs[1] \o Concat(Tail(seqs))

\* apps.get_models()
get_models(installed) == Concat([i \in DOMAIN installed |-> installed[i].models])

\* the class a (app_label, object_name) pair names: field.related_model
ModelOf(installed, key) ==
    LET all == get_models(installed)
        i   == CHOOSE k \in DOMAIN all :
                   all[k].app_label = key[1] /\ all[k].object_name = key[2]
    IN  all[i]

\* Options.label
ModelLabel(model) == model.app_label \o <<".">> \o model.object_name

NoError == [type |-> "", msg |-> <<>>]

\* str(e) of the LookupError of apps.get_app_config(app_label)
AppLookupMessage(app_label) ==
    <<"No installed app with label '">> \o app_label \o <<"'.">>

\* str(e) of the LookupError of app_config.get_model(model_label)
ModelLookupMessage(app_label, model_label) ==
    <<"App '">> \o app_label \o <<"' doesn't have a '">> \o model_label \o <<"' model.">>

\* raise CommandError("Unknown app") in place of the message of the lookup
CommandErrorWithoutMessage(e) == [type |-> "CommandError", msg |-> <<"Unknown app">>]

\* raise CommandError(str(e))
CommandError(e) == [type |-> "CommandError", msg |-> e.msg]

\* AppConfig.get_model(model_label): the lookup is by lower-cased name
HasModel(installed, app_label, model_label) ==
    LET ms == AppModels(installed, app_label)
    IN  \E i \in DOMAIN ms : StrLower(ms[i].object_name) = StrLower(model_label)

get_model(installed, app_label, model_label) ==
    LET ms == AppModels(installed, app_label)
        i  == CHOOSE k \in DOMAIN ms :
                  StrLower(ms[k].object_name) = StrLower(model_label)
    IN  ms[i]

RECURSIVE AppTablesLoop(_, _, _)
\* the loop of Command.get_app_tables over the selectors from position i on;
\* an exception leaves the loop with what was raised
AppTablesLoop(installed, app_labels, i) ==
    IF i > Len(app_labels) THEN [exc |-> NoError, app_tables |-> <<>>]
    ELSE
      LET app_label_parts == Split(app_labels[i], ".")
          app_label   == app_label_parts[1]
          model_label == IF Len(app_label_parts) > 1 THEN app_label_parts[2] ELSE None
          raised ==
              IF ~IsInstalled(installed, app_label)
              THEN CommandError([type |-> "LookupError",
                                 msg |-> AppLookupMessage(app_label)])
              ELSE IF model_label # None /\ ~HasModel(installed, app_label, model_label)
              THEN [type |-> "LookupError",
                    msg |-> ModelLookupMessage(app_label, model_label)]
              ELSE NoError
      IN  IF raised # NoError THEN [exc |-> raised, app_tables |-> <<>>]
          ELSE LET rest == AppTablesLoop(installed, app_labels, i + 1)
                   here == IF model_label # None
                           THEN <<KeyOf(get_model(installed, app_label, model_label))>>
                           ELSE KeysOf(AppModels(installed, app_label))
               IN  IF rest.exc # NoError THEN rest
                   ELSE [exc |-> NoError, app_tables |-> here \o rest.app_tables]

\* Command.get_app_tables
get_app_tables(installed, app_labels) ==
    IF app_labels = <<>>
    THEN [exc |-> NoError, app_tables |-> KeysOf(get_models(installed))]
    ELSE AppTablesLoop(installed, app_labels, 1)

(***************************************************************************)
(* Helpers of the command                                                  *)
(***************************************************************************)
\* Command.get_table_name
get_table_name(options, model) ==
    IF options.table_names THEN model.db_table ELSE ModelLabel(model)

\* Command.get_tl_module_name
get_tl_module_name(model) ==
    LET parts == Split(model.module, ".")
    IN  IF Len(parts) >= 2 THEN parts[Len(parts) - 1] ELSE parts[1]

\* "#" + hashlib.sha256(name).hexdigest()[:6]: a function of the name alone
HeaderColor(tl_module_name) == <<"#", "sha256[:6] of ">> \o tl_module_name

RECURSIVE WeightedSum(_, _)
WeightedSum(s, i) ==
    IF i > Len(s) THEN 0 ELSE i * Ord(s[i]) + WeightedSum(s, i + 1)

HexDigits == <<"0","1","2","3","4","5","6","7","8","9","a","b","c","d","e","f">>

\* django.db.backends.utils.names_digest(table, *columns, length=8): a hash of
\* the names, here of two hexadecimal digits
names_digest(table, columns) ==
    LET h == WeightedSum(table \o Concat(columns), 1) % 256
    IN  <<HexDigits[(h \div 16) + 1], HexDigits[(h % 16) + 1]>>

\* connection.schema_editor()._create_index_name(table, columns, suffix): all
\* names of the model are shorter than the backend's limit, nothing is cut
create_index_name(table, columns, suffix) ==
    table \o <<"_">> \o Join(columns, <<"_">>) \o <<"_">> \o names_digest(table, columns) \o suffix

\* connection.schema_editor()._unique_constraint_name(table, columns, quote=False)
unique_constraint_name(table, columns) == create_index_name(table, columns, <<"_","u","n","i","q">>)

\* isinstance(field, ignore_types): OneToOneRel is a ManyToOneRel
IsIgnored(field) == field.cls \in {<<"M","a","n","y","T","o","O","n","e","R","e","l">>, <<"O","n","e","T","o","O","n","e","R","e","l">>, <<"M","a","n","y","T","o","M","a","n","y","R","e","l">>}

IsOneToOneField(field) == field.cls = <<"O","n","e","T","o","O","n","e","F","i","e","l","d">>

\* isinstance(field, ForeignKey): OneToOneField is a ForeignKey
IsForeignKey(field) == field.cls \in {<<"F","o","r","e","i","g","n","K","e","y">>, <<"O","n","e","T","o","O","n","e","F","i","e","l","d">>}

IsManyToManyField(field) == field.cls = <<"M","a","n","y","T","o","M","a","n","y","F","i","e","l","d">>

\* Options._forward_fields_map[name].column
ColumnOfField(model, name) ==
    LET i == CHOOSE k \in DOMAIN model.fields : model.fields[k].name = name
    IN  IF IsForeignKey(model.fields[i]) THEN name \o <<"_","i","d">> ELSE name

(***************************************************************************)
(* dict                                                                    *)
(***************************************************************************)
EmptyDict == [k \in {} |-> <<>>]

\* d[k] = v
Put(d, k, v) == [x \in DOMAIN d \cup {k} |-> IF x = k THEN v ELSE d[x]]

HasKey(fields, name) == \E i \in DOMAIN fields : fields[i].name = name

\* fields[col.name] = col on a dict that keeps insertion order: a key already
\* there keeps its place
PutField(fields, col) ==
    IF HasKey(fields, col.name)
    THEN [i \in DOMAIN fields |-> IF fields[i].name = col.name THEN col ELSE fields[i]]
    ELSE Append(fields, col)

NewTable == [fields |-> <<>>, relations |-> <<>>, indexes |-> <<>>, note |-> <<>>]

(***************************************************************************)
(* Command.handle, first half: collecting tables, relations, indexes and   *)
(* enums. The locals of handle are the record st:                          *)
(*   tables, table_colors_and_groups, enums: the three dicts               *)
(*   schema_name, model_name, names_bound: the two names the enum branch   *)
(*     binds, which keep their value from one field to the next            *)
(*   exc: the exception that left the loop, if any                         *)
(* ctx is what one turn of the loop over the models holds: installed,      *)
(* options, app_table, table_name, table_color, tl_module_name.            *)
(***************************************************************************)
Raise(st, type) == [st EXCEPT !.exc = [type |-> type, msg |-> <<>>]]

\* the suffix "_id" of the db column of a foreign key
LinkName(field) == field.name \o <<"_","i","d">>

\* the name a field's column is emitted under
FieldName(field) == IF IsForeignKey(field) THEN LinkName(field) ELSE field.name

RelationType(field) ==
    IF IsOneToOneField(field) THEN "one_to_one" ELSE "one_to_many"

\* the relation of a OneToOneField or ForeignKey
FieldRelation(ctx, field) ==
    [type |-> RelationType(field),
     table_from |-> get_table_name(ctx.options, ModelOf(ctx.installed, field.related_model)),
     table_from_field |-> field.target_field,
     table_to |-> ctx.table_name,
     table_to_field |-> FieldName(field)]

\* if ...: ... if ...: ... in place of if ...: ... elif ...: ...
AddFieldRelationTwice(st, ctx, field) ==
    LET once == IF IsOneToOneField(field)
                THEN [st EXCEPT !.tables[ctx.table_name].relations =
                                     Append(@, FieldRelation(ctx, field))]
                ELSE st
    IN  IF IsForeignKey(field)
        THEN [once EXCEPT !.tables[ctx.table_name].relations =
                               Append(@, FieldRelation(ctx, field))]
        ELSE once

\* if isinstance(field, OneToOneField): ... elif isinstance(field, ForeignKey): ...
AddFieldRelation(st, ctx, field) ==
    IF IsOneToOneField(field)
    THEN [st EXCEPT !.tables[ctx.table_name].relations =
                         Append(@, FieldRelation(ctx, field))]
    ELSE IF IsForeignKey(field)
    THEN [st EXCEPT !.tables[ctx.table_name].relations =
                         Append(@, FieldRelation(ctx, field))]
    ELSE st

Index(fields, type, name, unique, pk) ==
    [fields |-> fields, type |-> type, name |-> name, unique |-> unique, pk |-> pk]

\* a column: the keys of its dict in insertion order, and the values of the
\* keys that carry one (null, pk and unique are True when present)
Column(name, keys, type, note, default) ==
    [name |-> name, keys |-> keys, type |-> type, note |-> note, default |-> default]

\* a linking table without its id column
M2MFieldsNoId(field) ==
    PutField(PutField(<<>>,
        Column(field.m2m_reverse_name, <<"type">>, <<"a","u","t","o">>, None, None)),
        Column(field.m2m_column_name, <<"type">>, <<"a","u","t","o">>, None, None))

\* the three columns of a linking table
M2MFields(field) ==
    PutField(PutField(PutField(<<>>,
        Column(<<"i","d">>, <<"pk", "type">>, <<"a","u","t","o">>, None, None)),
        Column(field.m2m_reverse_name, <<"type">>, <<"a","u","t","o">>, None, None)),
        Column(field.m2m_column_name, <<"type">>, <<"a","u","t","o">>, None, None))

\* the two relations of a linking table
M2MRelations(ctx, table_name_m2m, field) ==
    << [type |-> "one_to_many",
        table_from |-> table_name_m2m,
        table_from_field |-> field.m2m_column_name,
        table_to |-> get_table_name(ctx.options, ModelOf(ctx.installed, field.model)),
        table_to_field |-> field.m2m_target_field_name],
       [type |-> "one_to_many",
        table_from |-> table_name_m2m,
        table_from_field |-> field.m2m_reverse_name,
        table_to |-> get_table_name(ctx.options, ModelOf(ctx.installed, field.related_model)),
        table_to_field |-> field.m2m_reverse_target_field_name] >>

\* the four indexes of a linking table
M2MIndexes(old_table_name_m2m, field) ==
    << Index(<<field.m2m_reverse_name>>, <<"b","t","r","e","e">>,
             create_index_name(old_table_name_m2m, <<field.m2m_reverse_name>>, None),
             FALSE, FALSE),
       Index(<<field.m2m_column_name>>, <<"b","t","r","e","e">>,
             create_index_name(old_table_name_m2m, <<field.m2m_column_name>>, None),
             FALSE, FALSE),
       Index(<<<<"i","d">>>>, <<"b","t","r","e","e">>, old_table_name_m2m \o <<"_","p","k","e","y">>, TRUE, TRUE),
       Index(<<field.m2m_column_name, field.m2m_reverse_name>>, <<"b","t","r","e","e">>,
             unique_constraint_name(old_table_name_m2m,
                                    <<field.m2m_column_name, field.m2m_reverse_name>>),
             TRUE, FALSE) >>

M2MNote(options, old_table_name_m2m) ==
    <<"This is a Many-To-Many linking table autogenerated by Django.">>
    \o (IF ~options.table_names
        THEN <<"\n", "\n", "*DB table: ">> \o old_table_name_m2m \o <<"*">>
        ELSE <<>>)

\* '_' not in field.remote_field.through._meta.model_name: taken to mean that
\* the user gave the intermediate model
ThroughTakenAsExplicit(field) == ~Contains(field.through_model_name, "_")

\* table_name_m2m, from field.m2m_db_table()
M2MTableName(field) ==
    IF Contains(field.m2m_db_table, "_")
    THEN ReplaceFirst(field.m2m_db_table, "_", ".")
    ELSE field.m2m_db_table

\* the branch of a ManyToManyField
ManyToManyStep(st, ctx, field) ==
    LET old_table_name_m2m == field.m2m_db_table
        table_name_m2m     == M2MTableName(field)
    IN  IF ThroughTakenAsExplicit(field) THEN st
        ELSE IF table_name_m2m \in DOMAIN st.tables THEN st
        ELSE [st EXCEPT
                !.tables = Put(@, table_name_m2m,
                    [fields    |-> M2MFields(field),
                     relations |-> M2MRelations(ctx, table_name_m2m, field),
                     indexes   |-> M2MIndexes(old_table_name_m2m, field),
                     note      |-> M2MNote(ctx.options, old_table_name_m2m)]),
                !.table_colors_and_groups = Put(@, table_name_m2m,
                    [color |-> ctx.table_color, group |-> ctx.tl_module_name])]

\* the column of a field that is not many-to-many, before the enum branch
FieldColumn(field) ==
    Column(FieldName(field),
           <<"type", "note">>
             \o (IF field.null THEN <<"null">> ELSE <<>>)
             \o (IF field.primary_key THEN <<"pk">> ELSE <<>>)
             \o (IF FieldUnique(field) THEN <<"unique">> ELSE <<>>)
             \o (IF field.has_default THEN <<"default">> ELSE <<>>),
           map_field_type_to_dbml_type(field.cls),
           StripNewlines(field.db_comment
                         \o (IF field.help_text # None
                             THEN <<"\n">> \o field.help_text ELSE <<>>)),
           field.default)

\* the condition without field.unique
FieldIsIndexedUnlessUnique(field) == field.db_index \/ field.primary_key

\* whether the field gets an index entry of its own
FieldIsIndexed(field) == field.db_index \/ field.primary_key \/ FieldUnique(field)

\* the name of that entry
FieldIndexName(app_table, field) ==
    IF field.primary_key THEN app_table.db_table \o <<"_","p","k","e","y">>
    ELSE IF IsOneToOneField(field) \/ FieldUnique(field)
         THEN app_table.db_table \o <<"_">> \o FieldName(field) \o <<"_","k","e","y">>
    ELSE create_index_name(app_table.db_table, <<FieldName(field)>>, None)

FieldIndex(app_table, field) ==
    Index(<<FieldName(field)>>, <<"b","t","r","e","e">>, FieldIndexName(app_table, field),
          FieldUnique(field), field.primary_key)

\* the enum branch: bind schema_name and model_name from the table name, or
\* keep what an earlier field bound
BindNames(st, table_name) ==
    IF Contains(table_name, ".")
    THEN LET parts == Split(table_name, ".")
         IN  IF Len(parts) # 2 THEN Raise(st, "ValueError")
             ELSE [st EXCEPT !.schema_name = parts[1], !.model_name = parts[2],
                             !.names_bound = TRUE]
    ELSE IF Contains(table_name, "_")
    THEN LET parts == Split(table_name, "_")
         IN  IF Len(parts) # 2 THEN Raise(st, "ValueError")
             ELSE [st EXCEPT !.schema_name = parts[1], !.model_name = parts[2],
                             !.names_bound = TRUE]
    ELSE IF ~st.names_bound THEN Raise(st, "UnboundLocalError")
    ELSE st

\* enum_name = f"{schema_name}.{type}_{model_name}_{name}".lower()
EnumName(schema_name, type, model_name, field_name) ==
    StrLower(schema_name \o <<".">> \o type \o <<"_">> \o model_name \o <<"_">> \o field_name)

\* one field of the loop over app_table._meta.get_fields(); an exception
\* discards the frame, so st is left as the field found it
ProcessField(st, ctx, field) ==
    IF IsIgnored(field) THEN st
    ELSE IF IsManyToManyField(field) THEN ManyToManyStep(st, ctx, field)
    ELSE
      LET t   == ctx.table_name
          col == FieldColumn(field)
          st1 == AddFieldRelation(st, ctx, field)
          st2 == [st1 EXCEPT !.tables[t].fields = PutField(@, col)]
          st3 == IF FieldIsIndexed(field)
                 THEN [st2 EXCEPT !.tables[t].indexes =
                                      Append(@, FieldIndex(ctx.app_table, field))]
                 ELSE st2
      IN  IF field.choices = <<>> THEN st3
          ELSE LET st4 == BindNames(st3, t)
                   enum_name == EnumName(st4.schema_name, col.type,
                                         st4.model_name, col.name)
               IN  IF st4.exc # NoError THEN [st EXCEPT !.exc = st4.exc]
                   ELSE [st4 EXCEPT
                           !.tables[t].fields =
                               PutField(@, [col EXCEPT !.type = enum_name]),
                           !.enums = Put(@, enum_name, field.choices)]

RECURSIVE FieldsLoop(_, _, _)
FieldsLoop(st, ctx, i) ==
    IF i > Len(ctx.app_table.fields) \/ st.exc # NoError THEN st
    ELSE FieldsLoop(ProcessField(st, ctx, ctx.app_table.fields[i]), ctx, i + 1)

\* the entries of class Meta: indexes
MetaIndexes(app_table) ==
    [i \in DOMAIN app_table.indexes |->
        LET index == app_table.indexes[i]
        IN  Index([j \in DOMAIN index.fields |-> ColumnOfField(app_table, index.fields[j])],
                  IF index.hash THEN <<"h","a","s","h">> ELSE <<"b","t","r","e","e">>,
                  index.name, FALSE, FALSE)]

\* the entries of class Meta: unique_together
UniqueTogetherIndexes(app_table) ==
    [i \in DOMAIN app_table.unique_together |->
        LET column_names_in_index ==
                [j \in DOMAIN app_table.unique_together[i] |->
                    ColumnOfField(app_table, app_table.unique_together[i][j])]
        IN  Index(column_names_in_index, <<"b","t","r","e","e">>,
                  unique_constraint_name(app_table.db_table, column_names_in_index),
                  TRUE, FALSE)]

\* what the end of a turn adds to the note of the table
TableNote(options, app_table) ==
    (IF app_table.doc # None THEN <<"\n">> \o app_table.doc ELSE <<>>)
    \o (IF app_table.db_table_comment # None
        THEN <<"\n", "\n", "*DB comment: ">> \o app_table.db_table_comment \o <<"*">>
        ELSE <<>>)
    \o (IF ~options.table_names
        THEN <<"\n", "\n", "*DB table: ">> \o app_table.db_table \o <<"*">>
        ELSE <<>>)

\* one turn of the loop over self.get_app_tables(app_labels)
ProcessModel(st, installed, options, app_table) ==
    LET tl_module_name == get_tl_module_name(app_table)
        table_color == IF ~options.color_by_app THEN None ELSE HeaderColor(tl_module_name)
        table_name  == get_table_name(options, app_table)
        ctx == [installed |-> installed, options |-> options, app_table |-> app_table,
                table_name |-> table_name, table_color |-> table_color,
                tl_module_name |-> tl_module_name]
        st0 == [st EXCEPT
                  !.tables = Put(@, table_name, NewTable),
                  !.table_colors_and_groups =
                      Put(@, table_name, [color |-> table_color, group |-> tl_module_name])]
        st1 == FieldsLoop(st0, ctx, 1)
    IN  IF st1.exc # NoError THEN st1
        ELSE [st1 EXCEPT
                !.tables[table_name].indexes =
                    @ \o MetaIndexes(app_table) \o UniqueTogetherIndexes(app_table),
                !.tables[table_name].note = @ \o TableNote(options, app_table)]

(***************************************************************************)
(* Command.handle, second half: the document. output_blocks is a sequence  *)
(* of lines; a line is its kind, the name it declares (if any) and, in     *)
(* args, the pieces the format string puts together, in the order of the   *)
(* text.                                                                   *)
(***************************************************************************)
Line(kind, name, args) == [kind |-> kind, name |-> name, args |-> args]

\* the double quote, and the backquote by name
DQ == "\""

BQ == "<backquote>"

\* sub in s
HasSubstr(s, sub) ==
    \E i \in 0..(Len(s) - Len(sub)) : SubSeq(s, i + 1, i + Len(sub)) = sub

\* Command.get_db_type
get_db_type ==
    LET engine == StrLower(Engine)
    IN  IF HasSubstr(engine, <<"p","o","s","t","g","r","e","s">>) THEN <<"P","o","s","t","g","r","e","S","Q","L">>
        ELSE IF HasSubstr(engine, <<"s","q","l","i","t","e">>) THEN <<"S","Q","L","i","t","e">>
        ELSE IF HasSubstr(engine, <<"m","y","s","q","l">>) THEN <<"M","y","S","Q","L">>
        ELSE IF HasSubstr(engine, <<"o","r","a","c","l","e">>) THEN <<"O","r","a","c","l","e">>
        ELSE IF HasSubstr(engine, <<"m","s","s","q","l">>) THEN <<"Microsoft SQL">>
        ELSE <<"Unknown (">> \o Engine \o <<")">>

\* datetime.now(UTC).strftime('%m-%d-%Y %I:%M%p UTC'): the minute t
Timestamp(t) == <<"Last Updated At ", Digits[t + 1]>>

\* the Project block with the timestamp whatever the options say
ProjectBlockAlwaysStamped(options, t) ==
    Line("Project", <<"N","o","n","e">>, <<get_db_type, <<"N","o","n","e">> \o <<"\n">> \o Timestamp(t)>>)

\* the Project block; project_name and project_notes are not given (None)
ProjectBlock(options, t) ==
    IF ~options.disable_update_timestamp
    THEN Line("Project", <<"N","o","n","e">>, <<get_db_type, <<"N","o","n","e">> \o <<"\n">> \o Timestamp(t)>>)
    ELSE Line("Project", <<"N","o","n","e">>, <<get_db_type, <<"N","o","n","e">>>>)

\* the attribute one key of a column dict gives, if any
KeyAttribute(col, key) ==
    IF key \in {"type", "null"} THEN <<>>
    ELSE IF key = "note"
         THEN IF col.note = None THEN <<>>
              ELSE IF Contains(col.note, "\n")
                   THEN << <<"note: '''", "\n">> \o col.note \o <<"'''">> >>
                   ELSE << <<"note: '''">> \o col.note \o <<"'''">> >>
    ELSE IF key = "pk" THEN << <<"p","k">> >>
    ELSE IF key = "unique" THEN << <<"u","n","i","q","u","e">> >>
    ELSE << <<"default:", BQ, DQ>> \o col.default \o <<DQ, BQ>> >>

\* Command.get_field_attributes: the attributes between the brackets
get_field_attributes(col) ==
    IF Len(col.keys) = 1 THEN <<>>
    ELSE Concat([k \in DOMAIN col.keys |-> KeyAttribute(col, col.keys[k])])
         \o (IF InSeq(col.keys, "null") THEN << <<"n","u","l","l">> >> ELSE << <<"not null">> >>)

\* Command.cleanup_docstring: the modelled notes carry no indentation
cleanup_docstring(note) == StripNewlines(note)

EnumMember(choice) ==
    <<DQ>> \o choice.value \o <<DQ, " [note: '''">> \o choice.label \o <<"'''">>

EnumBlock(enum_name, enum) ==
    Line("enum", enum_name, [i \in DOMAIN enum |-> EnumMember(enum[i])])

ColumnLine(col) == Line("column", col.name, <<col.type>> \o get_field_attributes(col))

IndexLine(index) ==
    Line("index", index.name,
         <<Join(index.fields, <<",">>)>>
           \o (IF index.pk THEN << <<"p","k">> >> ELSE <<>>)
           \o (IF index.unique THEN << <<"u","n","i","q","u","e">> >> ELSE <<>>)
           \o <<index.type>>)

\* the ref line with the two sides exchanged
RefLineReversed(relation) ==
    Line("ref", None,
         <<relation.table_from, relation.table_from_field,
           IF relation.type = "one_to_many" THEN <<">">> ELSE <<"-">>,
           relation.table_to, relation.table_to_field>>)

\* "ref: {}.{} > {}.{}".format(table_to, table_to_field, table_from, table_from_field)
RefLine(relation) ==
    Line("ref", None,
         <<relation.table_to, relation.table_to_field,
           IF relation.type = "one_to_many" THEN <<">">> ELSE <<"-">>,
           relation.table_from, relation.table_from_field>>)

\* the block of one table, then its relations, then the blank line
TableBlock(options, table_colors_and_groups, table_name, table) ==
    << Line("Table", table_name,
            IF options.color_by_app
            THEN <<table_colors_and_groups[table_name].color>> ELSE <<>>) >>
    \o (IF table.note # <<>>
        THEN << Line("Note", None, <<cleanup_docstring(table.note)>>) >> ELSE <<>>)
    \o [i \in DOMAIN table.fields |-> ColumnLine(table.fields[i])]
    \o (IF table.indexes # <<>>
        THEN << Line("indexes", None, <<>>) >>
             \o (LET sorted == SortedByName(table.indexes)
                 IN  [i \in DOMAIN sorted |-> IndexLine(sorted[i])])
             \o << Line("end_indexes", None, <<>>) >>
        ELSE <<>>)
    \o << Line("end_table", None, <<>>) >>
    \o [i \in DOMAIN table.relations |-> RefLine(table.relations[i])]
    \o << Line("blank", None, <<>>) >>

\* the reverse of the sorted order
EmitOrderUnsorted(S) ==
    LET sorted == SortedStrs(S)
    IN  [i \in DOMAIN sorted |-> sorted[Len(sorted) + 1 - i]]

\* the order in which the items of a dict are emitted: sorted(d.items())
EmitOrder(S) == SortedStrs(S)

\* the names of a group, as the loop over sorted(table_colors_and_groups) adds them
GroupTables(table_colors_and_groups, group) ==
    SelectSeq(EmitOrder(DOMAIN table_colors_and_groups),
              LAMBDA t : table_colors_and_groups[t].group = group)

TableGroupBlock(table_colors_and_groups, group) ==
    LET members == GroupTables(table_colors_and_groups, group)
    IN  << Line("TableGroup", group, <<>>) >>
        \o [i \in DOMAIN members |-> Line("member", members[i], <<>>)]
        \o << Line("end_group", None, <<>>) >>

\* output_blocks, whose lines '\n'.join makes output_string
RenderDocument(options, tables, enums, table_colors_and_groups, t) ==
    LET enum_names  == EmitOrder(DOMAIN enums)
        table_names == EmitOrder(DOMAIN tables)
        groups == EmitOrder({table_colors_and_groups[n].group :
                                n \in DOMAIN table_colors_and_groups})
    IN  << ProjectBlock(options, t) >>
        \o [i \in DOMAIN enum_names |-> EnumBlock(enum_names[i], enums[enum_names[i]])]
        \o Concat([i \in DOMAIN table_names |->
                      TableBlock(options, table_colors_and_groups,
                                 table_names[i], tables[table_names[i]])])
        \o (IF options.group_by_app
            THEN Concat([i \in DOMAIN groups |->
                            TableGroupBlock(table_colors_and_groups, groups[i])])
            ELSE <<>>)

(***************************************************************************)
(* One run of the command, and a second run on the same metadata with the  *)
(* same arguments.                                                         *)
(***************************************************************************)
VARIABLES
    installed,       \* the app registry: the installed apps and their models
    app_labels,      \* the app_label[.ModelName] arguments
    options,         \* the switches of the command line
    pc,              \* where handle is
    app_tables,      \* the models get_app_tables returned
    pos,             \* the next model of app_tables to process
    tables, enums, table_colors_and_groups,
    schema_name, model_name, names_bound,
    output_string,
    exc,             \* the exception that ended the run
    stdout,          \* what the run printed
    file,            \* the output file
    now,             \* the minute the wall clock showed when last read
    prior,           \* what the run before this one left behind
    field_words,     \* the words of the name of a field class
    type_tag         \* what map_field_type_to_dbml_type returned for it

vars == <<installed, app_labels, options, pc, app_tables, pos, tables, enums,
          table_colors_and_groups, schema_name, model_name, names_bound,
          output_string, exc, stdout, file, now, prior, field_words, type_tag>>

typing == <<field_words, type_tag>>

inputs == <<installed, app_labels, options>>

locals == <<app_tables, pos, tables, enums, table_colors_and_groups,
            schema_name, model_name, names_bound, output_string>>

NoFile == [exists |-> FALSE, content |-> <<>>]

NoRun == [ran |-> FALSE, pc |-> "", stdout |-> <<>>, file |-> NoFile, now |-> 0]

Options ==
    [table_names : BOOLEAN, group_by_app : BOOLEAN, color_by_app : BOOLEAN,
     disable_update_timestamp : BOOLEAN, output_file : BOOLEAN]

Selections == UNION {[1..n -> SelectorChoices] : n \in 0..MaxSelectors}

FreshLocals ==
    /\ app_tables = <<>>
    /\ pos = 1
    /\ tables = EmptyDict
    /\ enums = EmptyDict
    /\ table_colors_and_groups = EmptyDict
    /\ schema_name = None
    /\ model_name = None
    /\ names_bound = FALSE
    /\ output_string = <<>>

Init ==
    /\ installed \in InstalledChoices
    /\ app_labels \in Selections
    /\ options \in Options
    /\ pc = "start"
    /\ FreshLocals
    /\ exc = NoError
    /\ stdout = <<>>
    /\ file = NoFile
    /\ now = 0
    /\ prior = NoRun
    /\ field_words = <<>>
    /\ type_tag = None

\* for app_table in self.get_app_tables(app_labels): the call
GetAppTables ==
    /\ pc = "start"
    /\ LET r == get_app_tables(installed, app_labels)
       IN  IF r.exc # NoError
           THEN /\ pc' = "raised"
                /\ exc' = r.exc
                /\ UNCHANGED app_tables
           ELSE /\ pc' = "collect"
                /\ app_tables' = r.app_tables
                /\ UNCHANGED exc
    /\ UNCHANGED <<inputs, pos, tables, enums, table_colors_and_groups, schema_name,
                   model_name, names_bound, output_string, stdout, file, now, prior>>
    /\ UNCHANGED typing

\* one turn of the loop over the models
Collect ==
    /\ pc = "collect"
    /\ pos <= Len(app_tables)
    /\ LET st == ProcessModel(
                    [tables |-> tables, enums |-> enums,
                     table_colors_and_groups |-> table_colors_and_groups,
                     schema_name |-> schema_name, model_name |-> model_name,
                     names_bound |-> names_bound, exc |-> NoError],
                    installed, options, ModelOf(installed, app_tables[pos]))
       IN  /\ tables' = st.tables
           /\ enums' = st.enums
           /\ table_colors_and_groups' = st.table_colors_and_groups
           /\ schema_name' = st.schema_name
           /\ model_name' = st.model_name
           /\ names_bound' = st.names_bound
           /\ exc' = st.exc
           /\ pc' = IF st.exc # NoError THEN "raised" ELSE "collect"
    /\ pos' = pos + 1
    /\ UNCHANGED <<inputs, app_tables, output_string, stdout, file, now, prior>>
    /\ UNCHANGED typing

\* output_blocks and output_string; the clock is read once, and shows the
\* minute it showed before or a later one
Render ==
    /\ pc = "collect"
    /\ pos > Len(app_tables)
    /\ \E t \in now..MaxClock :
          /\ now' = t
          /\ output_string' =
                RenderDocument(options, tables, enums, table_colors_and_groups, t)
    /\ pc' = "output"
    /\ UNCHANGED <<inputs, app_tables, pos, tables, enums, table_colors_and_groups,
                   schema_name, model_name, names_bound, exc, stdout, file, prior>>
    /\ UNCHANGED typing

\* with Path(output_file).open('w') as f: f.write(output_string)
WriteFile ==
    /\ pc = "output"
    /\ options.output_file
    /\ file' = [exists |-> TRUE, content |-> output_string]
    /\ pc' = "done"
    /\ UNCHANGED <<inputs, locals, exc, stdout, now, prior>>
    /\ UNCHANGED typing

\* print(output_string)
PrintOutput ==
    /\ pc = "output"
    /\ ~options.output_file
    /\ stdout' = Append(stdout, output_string)
    /\ pc' = "done"
    /\ UNCHANGED <<inputs, locals, exc, file, now, prior>>
    /\ UNCHANGED typing

\* the command is run again: a new process, the same project and arguments,
\* the file system as the first run left it
RunAgain ==
    /\ pc \in {"done", "raised"}
    /\ ~prior.ran
    /\ prior' = [ran |-> TRUE, pc |-> pc, stdout |-> stdout, file |-> file, now |-> now]
    /\ pc' = "start"
    /\ app_tables' = <<>>
    /\ pos' = 1
    /\ tables' = EmptyDict
    /\ enums' = EmptyDict
    /\ table_colors_and_groups' = EmptyDict
    /\ schema_name' = None
    /\ model_name' = None
    /\ names_bound' = FALSE
    /\ output_string' = <<>>
    /\ exc' = NoError
    /\ stdout' = <<>>
    /\ UNCHANGED <<inputs, file, now>>
    /\ UNCHANGED typing

Next ==
    \/ GetAppTables
    \/ Collect
    \/ Render
    \/ WriteFile
    \/ PrintOutput

Spec == Init /\ [][Next]_vars

NextTwice ==
    \/ Next
    \/ RunAgain

SpecTwice == Init /\ [][NextTwice]_vars

(***************************************************************************)
(* map_field_type_to_dbml_type on its own: a field class whose name is     *)
(* made of a few words goes in, its type tag comes out.                    *)
(***************************************************************************)
\* the words a field class name is made of: capitalised words, the acronyms
\* the code corrects, an acronym it does not know, and the suffix Field
FieldWordChoices ==
    { <<"C","h","a","r">>, <<"A","d","d","r","e","s","s">>, <<"W","i","f","i">>, <<"I","P">>, <<"U","R","L">>, <<"U","U","I","D">>, <<"J","S","O","N">>, <<"P","S","K">>, <<"F","i","e","l","d">> }

\* the names of field classes, word by word
FieldClassNames == UNION {[1..n -> FieldWordChoices] : n \in 1..MaxWords}

\* type(field).__name__
ClassName(words) == Concat(words)

InitType ==
    /\ field_words \in FieldClassNames
    /\ type_tag = None
    /\ pc = "type"
    /\ installed = <<TestApp, Blog>>
    /\ app_labels = <<>>
    /\ options = [table_names |-> FALSE, group_by_app |-> FALSE, color_by_app |-> FALSE,
                  disable_update_timestamp |-> FALSE, output_file |-> FALSE]
    /\ FreshLocals
    /\ exc = NoError
    /\ stdout = <<>>
    /\ file = NoFile
    /\ now = 0
    /\ prior = NoRun

\* self.map_field_type_to_dbml_type(type(field))
MapFieldType ==
    /\ pc = "type"
    /\ type_tag' = map_field_type_to_dbml_type(ClassName(field_words))
    /\ pc' = "typed"
    /\ UNCHANGED <<inputs, locals, exc, stdout, file, now, prior, field_words>>

NextType ==
    \/ MapFieldType

SpecType == InitType /\ [][NextType]_vars

(***************************************************************************)
(* Properties                                                              *)
(***************************************************************************)
\* the app label a selector names
SelectorApp(selector) == Split(selector, ".")[1]

\* the selector names an app that is not installed
UnknownApp(selector) == ~IsInstalled(installed, SelectorApp(selector))

\* the selector names an installed app and a model the app does not have
UnknownModel(selector) ==
    /\ ~UnknownApp(selector)
    /\ Len(Split(selector, ".")) > 1
    /\ ~HasModel(installed, SelectorApp(selector), Split(selector, ".")[2])

Resolves(selector) == ~UnknownApp(selector) /\ ~UnknownModel(selector)

HasUnresolved == \E i \in DOMAIN app_labels : ~Resolves(app_labels[i])

\* the first selector of the command line that does not resolve
FirstUnresolved ==
    CHOOSE i \in DOMAIN app_labels :
        /\ ~Resolves(app_labels[i])
        /\ \A j \in 1..(i - 1) : Resolves(app_labels[j])

\* nothing was printed and no file was created or written
NoOutput == stdout = <<>> /\ file = NoFile /\ output_string = <<>>

\* C1: when the first selector that does not resolve names an app that is not
\* installed, however many valid selectors precede it, the run can only end
\* with a CommandError whose message is the message of the failed app lookup,
\* and at no point is anything printed or any file written.
C1_UnknownAppIsCommandError ==
    (HasUnresolved /\ UnknownApp(app_labels[FirstUnresolved])) =>
        /\ pc \in {"start", "raised"}
        /\ pc = "raised" =>
              exc = [type |-> "CommandError",
                     msg  |-> <<"No installed app with label '">>
                              \o SelectorApp(app_labels[FirstUnresolved])
                              \o <<"'.">>]
        /\ NoOutput

\* a run asked to write a file, with a valid selector first and an unknown app
\* second, has ended with the exception
C1_Witness ==
    /\ pc = "raised"
    /\ Len(app_labels) = 2
    /\ Resolves(app_labels[1])
    /\ UnknownApp(app_labels[2])
    /\ options.output_file
    /\ exc.type = "CommandError"

\* C2: when the first selector that does not resolve names an installed app
\* and a model the app does not have, the run can only end with a
\* CommandError carrying the message of the failed model lookup, and nothing
\* is printed or written.
C2_UnknownModelIsCommandError ==
    (HasUnresolved /\ UnknownModel(app_labels[FirstUnresolved])) =>
        /\ pc \in {"start", "raised"}
        /\ pc = "raised" =>
              exc = [type |-> "CommandError",
                     msg  |-> <<"App '">>
                              \o SelectorApp(app_labels[FirstUnresolved])
                              \o <<"' doesn't have a '">>
                              \o Split(app_labels[FirstUnresolved], ".")[2]
                              \o <<"' model.">>]
        /\ NoOutput

\* the loop over the models has not been left by an exception
Collecting == pc \in {"collect", "output", "done"}

\* the model processed in turn i of the loop
Processed(i) == ModelOf(installed, app_tables[i])

\* the table name of a model in the naming mode of the run
NameOf(model) ==
    IF options.table_names THEN model.db_table
    ELSE model.app_label \o <<".">> \o model.object_name

\* the table names of the models processed so far
ProcessedNames == {NameOf(Processed(i)) : i \in 1..(pos - 1)}

\* the model whose turn last wrote the table of that name
LastModelNamed(table_name) ==
    LET i == CHOOSE k \in 1..(pos - 1) :
                 /\ NameOf(Processed(k)) = table_name
                 /\ \A j \in (k + 1)..(pos - 1) : NameOf(Processed(j)) # table_name
    IN  Processed(i)

IsLink(field) == field.cls \in {<<"F","o","r","e","i","g","n","K","e","y">>, <<"O","n","e","T","o","O","n","e","F","i","e","l","d">>}

LinkFields(model) == SelectSeq(model.fields, IsLink)

\* C3: the table of every processed model has one relation per ForeignKey or
\* OneToOneField field and no other: the relation is one_to_one for a
\* OneToOneField and one_to_many otherwise, its "to" side is the table itself
\* with the column <field name>_id, its "from" side is the table of the
\* related model with the name of the target field, and the table has exactly
\* one column named <field name>_id.
C3_OneRelationPerLink ==
    Collecting =>
        \A table_name \in ProcessedNames :
            LET links == LinkFields(LastModelNamed(table_name))
                rels  == tables[table_name].relations
                cols  == tables[table_name].fields
            IN  /\ Len(rels) = Len(links)
                /\ \A i \in DOMAIN links :
                      LET f == links[i]
                          column == f.name \o <<"_","i","d">>
                          found == {k \in DOMAIN rels :
                                       /\ rels[k].table_to = table_name
                                       /\ rels[k].table_to_field = column}
                      IN  /\ Cardinality(found) = 1
                          /\ \A k \in found :
                                /\ rels[k].type =
                                      (IF f.cls = <<"O","n","e","T","o","O","n","e","F","i","e","l","d">>
                                       THEN "one_to_one" ELSE "one_to_many")
                                /\ rels[k].table_from =
                                      NameOf(ModelOf(installed, f.related_model))
                                /\ rels[k].table_from_field = f.target_field
                          /\ Cardinality({c \in DOMAIN cols : cols[c].name = column}) = 1
                          /\ \A c \in DOMAIN cols : cols[c].name # f.name

\* Profile, whose one-to-one link is the primary key, and Badge, whose foreign
\* key targets that link, have been processed
C3_Witness ==
    /\ Collecting
    /\ \E i \in 1..(pos - 1) :
          /\ Processed(i).object_name = <<"P","r","o","f","i","l","e">>
          /\ \E k \in DOMAIN tables[NameOf(Processed(i))].relations :
                tables[NameOf(Processed(i))].relations[k].type = "one_to_one"
    /\ \E i \in 1..(pos - 1) :
          /\ Processed(i).object_name = <<"B","a","d","g","e">>
          /\ \E k \in DOMAIN tables[NameOf(Processed(i))].relations :
                tables[NameOf(Processed(i))].relations[k].table_from_field = <<"a","u","t","h","o","r">>

\* the lines of one kind, in document order
LinesOf(doc, kind) == SelectSeq(doc, LAMBDA line : line.kind = kind)

Rendered == pc \in {"output", "done"}

CategoryTable == IF options.table_names THEN <<"t","e","s","t","a","p","p","_","c","a","t","e","g","o","r","y">> ELSE <<"t","e","s","t","a","p","p",".","C","a","t","e","g","o","r","y">>

PostTable == IF options.table_names THEN <<"t","e","s","t","a","p","p","_","p","o","s","t">> ELSE <<"t","e","s","t","a","p","p",".","P","o","s","t">>

\* C4 as amended: for the selector testapp alone (Category{name} and
\* Post{title, content, category -> Category}) the document has exactly two
\* Table blocks and exactly one ref line, and the line has the owning table's
\* link column on the left of '>' and the referenced table's key on the
\* right: ref: <Post table>.category_id > <Category table>.id
C4_TwoTablesOneRefOwnerOnTheLeft ==
    (Rendered /\ app_labels = << <<"t","e","s","t","a","p","p">> >>) =>
        /\ Len(LinesOf(output_string, "Table")) = 2
        /\ Len(LinesOf(output_string, "ref")) = 1
        /\ LinesOf(output_string, "ref")[1].args =
              <<PostTable, <<"c","a","t","e","g","o","r","y","_","i","d">>, <<">">>, CategoryTable, <<"i","d">>>>

\* C4 as stated: the same, with the referenced table's key on the left:
\* ref: <Category table>.id > <Post table>.category_id
C4_TwoTablesOneRefKeyOnTheLeft ==
    (Rendered /\ app_labels = << <<"t","e","s","t","a","p","p">> >>) =>
        /\ Len(LinesOf(output_string, "Table")) = 2
        /\ Len(LinesOf(output_string, "ref")) = 1
        /\ LinesOf(output_string, "ref")[1].args =
              <<CategoryTable, <<"i","d">>, <<">">>, PostTable, <<"c","a","t","e","g","o","r","y","_","i","d">>>>

\* the document of the selector testapp has been printed
C4_Witness ==
    /\ pc = "done"
    /\ app_labels = << <<"t","e","s","t","a","p","p">> >>
    /\ stdout = <<output_string>>
    /\ \E i \in DOMAIN output_string : output_string[i].kind = "ref"

IsManyToMany(field) == field.cls = <<"M","a","n","y","T","o","M","a","n","y","F","i","e","l","d">>

\* the many-to-many fields of a model whose intermediate model Django generated
AutoManyToMany(model) ==
    {model.fields[k] : k \in {k \in DOMAIN model.fields :
                                 /\ IsManyToMany(model.fields[k])
                                 /\ model.fields[k].through_auto_created}}

\* the names of the linking tables of those fields of the models met so far
AutoLinkingNames ==
    UNION {{ReplaceFirst(f.m2m_db_table, "_", ".") : f \in AutoManyToMany(Processed(i))} :
              i \in 1..(pos - 1)}

\* C5: the tables collected are exactly the tables of the processed models and
\* the linking tables of the many-to-many fields whose intermediate model is
\* auto-generated: a field with a user-supplied intermediate adds none,
\* whatever the intermediate is named.
C5_NoLinkingTableForUserThrough ==
    (Collecting /\ pos > Len(app_tables)) =>
        DOMAIN tables = ProcessedNames \cup AutoLinkingNames

\* the table is a linking table of the field: it has relations, each from the
\* table itself, by the two link columns of the field
IsLinkingTableOf(table_name, field) ==
    LET rels == tables[table_name].relations
    IN  /\ rels # <<>>
        /\ \A k \in DOMAIN rels : rels[k].table_from = table_name
        /\ {rels[k].table_from_field : k \in DOMAIN rels} =
              {field.m2m_column_name, field.m2m_reverse_name}

\* C6: for every many-to-many field, of a model processed so far, whose
\* intermediate model is auto-generated, the tables collected hold exactly one
\* linking table; it has exactly two relations, both one_to_many, one to the
\* table of the declaring model and one to the table of the related model,
\* and exactly three columns: id and the two link columns.
C6_OneLinkingTablePerAutoField ==
    Collecting =>
        \A i \in 1..(pos - 1) :
            \A f \in AutoManyToMany(Processed(i)) :
                LET linking == {t \in DOMAIN tables : IsLinkingTableOf(t, f)}
                IN  /\ Cardinality(linking) = 1
                    /\ \A t \in linking :
                          LET rels == tables[t].relations
                              cols == tables[t].fields
                          IN  /\ Len(rels) = 2
                              /\ \A k \in DOMAIN rels : rels[k].type = "one_to_many"
                              /\ \E k \in DOMAIN rels :
                                    /\ rels[k].table_to = NameOf(ModelOf(installed, f.model))
                                    /\ rels[k].table_from_field = f.m2m_column_name
                              /\ \E k \in DOMAIN rels :
                                    /\ rels[k].table_to =
                                          NameOf(ModelOf(installed, f.related_model))
                                    /\ rels[k].table_from_field = f.m2m_reverse_name
                              /\ Len(cols) = 3
                              /\ {cols[c].name : c \in DOMAIN cols} =
                                    {<<"i","d">>, f.m2m_column_name, f.m2m_reverse_name}

\* Article, which declares labels, has been processed twice, and the loop is over
C6_Witness ==
    /\ Rendered
    /\ Len(app_tables) = 2
    /\ Processed(1).object_name = <<"A","r","t","i","c","l","e">>
    /\ Processed(2).object_name = <<"A","r","t","i","c","l","e">>
    /\ AutoManyToMany(Processed(1)) # {}

\* the fields of a model that carry choices
ChoiceFields(model) == SelectSeq(model.fields, LAMBDA f : f.choices # <<>>)

\* the column a field of a processed model is emitted as
ColumnNamed(table_name, name) ==
    LET cols == tables[table_name].fields
    IN  cols[CHOOSE c \in DOMAIN cols : cols[c].name = name]

\* the choice-bearing columns collected so far: table name and column name
ChoiceColumns ==
    UNION {{<<t, f.name>> : f \in {ChoiceFields(LastModelNamed(t))[k] :
                                      k \in DOMAIN ChoiceFields(LastModelNamed(t))}} :
              t \in ProcessedNames}

\* C7: in both naming modes no run ends with an error of the enum derivation;
\* the type of every choice-bearing column collected is a lower-case enum
\* name that ends with the column's own name, the enum of that name holds the
\* choices of the field in declaration order, and two choice-bearing columns
\* that differ in table or in column name have different enum names.
C7_EnumPerChoiceColumn ==
    /\ pc = "raised" => exc.type \in {"CommandError", "LookupError"}
    /\ Collecting =>
          /\ \A tc \in ChoiceColumns :
                LET type == ColumnNamed(tc[1], tc[2]).type
                    f == CHOOSE g \in {ChoiceFields(LastModelNamed(tc[1]))[k] :
                                         k \in DOMAIN ChoiceFields(LastModelNamed(tc[1]))} :
                             g.name = tc[2]
                IN  /\ type = StrLower(type)
                    /\ type \in DOMAIN enums
                    /\ enums[type] = f.choices
          /\ \A tc1, tc2 \in ChoiceColumns :
                tc1 # tc2 =>
                    ColumnNamed(tc1[1], tc1[2]).type # ColumnNamed(tc2[1], tc2[2]).type

\* the index lines of a document
IndexNames(doc) == [i \in DOMAIN LinesOf(doc, "index") |-> LinesOf(doc, "index")[i].name]

\* C8: no two index lines of the emitted document have the same name.
C8_IndexNamesUnique ==
    Rendered =>
        LET names == IndexNames(output_string)
        IN  \A i, j \in DOMAIN names : i # j => names[i] # names[j]

\* the names of the lines of one kind, in document order
NamesOf(doc, kind) == [i \in DOMAIN LinesOf(doc, kind) |-> LinesOf(doc, kind)[i].name]

\* each name is smaller than the next one
Increasing(names) == \A i \in 1..(Len(names) - 1) : StrLess(names[i], names[i + 1])

\* no name is greater than the next one
NonDecreasing(names) == \A i \in 1..(Len(names) - 1) : StrLeq(names[i], names[i + 1])

\* the lines from the Table line at position i up to the next Table or
\* TableGroup line
BlockAt(doc, i) ==
    LET later == {j \in (i + 1)..Len(doc) : doc[j].kind \in {"Table", "TableGroup"}}
        last  == IF later = {} THEN Len(doc)
                 ELSE (CHOOSE j \in later : \A k \in later : j <= k) - 1
    IN  SubSeq(doc, i, last)

\* the names of the columns of a model in the order get_fields() lists the fields
DiscoveryOrder(model) ==
    LET own == SelectSeq(model.fields,
                   LAMBDA f : f.cls \notin {<<"M","a","n","y","T","o","O","n","e","R","e","l">>, <<"O","n","e","T","o","O","n","e","R","e","l">>,
                                            <<"M","a","n","y","T","o","M","a","n","y","R","e","l">>, <<"M","a","n","y","T","o","M","a","n","y","F","i","e","l","d">>})
    IN  [k \in DOMAIN own |-> IF IsLink(own[k]) THEN own[k].name \o <<"_","i","d">>
                              ELSE own[k].name]

\* the position of the first line of a kind in a block, 0 if there is none
FirstOf(block, kind) ==
    IF \E k \in DOMAIN block : block[k].kind = kind
    THEN CHOOSE k \in DOMAIN block :
             block[k].kind = kind /\ \A j \in 1..(k - 1) : block[j].kind # kind
    ELSE 0

\* C9: in the document the Table lines and the enum lines are in increasing
\* order of their names; between a Table line and the next, the column lines
\* of a model's table are in the order the fields were discovered (those of a
\* linking table: id, then the two link columns as they were added), the index
\* lines are ordered by name, and every relation of the table has its ref line
\* after the line that closes the table.
C9_DocumentOrder ==
    Rendered =>
        LET doc == output_string
        IN  /\ Increasing(NamesOf(doc, "Table"))
            /\ Increasing(NamesOf(doc, "enum"))
            /\ \A i \in DOMAIN doc :
                  doc[i].kind = "Table" =>
                      LET block == BlockAt(doc, i)
                          close == FirstOf(block, "end_table")
                      IN  /\ doc[i].name \in ProcessedNames =>
                                NamesOf(block, "column") =
                                    DiscoveryOrder(LastModelNamed(doc[i].name))
                          /\ doc[i].name \notin ProcessedNames =>
                                \E m \in 1..(pos - 1) :
                                    \E k \in DOMAIN Processed(m).fields :
                                        LET f == Processed(m).fields[k]
                                        IN  /\ IsManyToMany(f)
                                            /\ NamesOf(block, "column") =
                                                  << <<"i","d">>, f.m2m_reverse_name,
                                                     f.m2m_column_name >>
                          /\ NonDecreasing(NamesOf(block, "index"))
                          /\ close > 0
                          /\ Len(LinesOf(block, "Table")) = 1
                          /\ Len(LinesOf(block, "ref")) = Len(tables[doc[i].name].relations)
                          /\ \A k \in DOMAIN block :
                                block[k].kind = "ref" =>
                                    /\ k > close
                                    /\ doc[i].name \in {block[k].args[1], block[k].args[4]}
            /\ \A i \in DOMAIN doc :
                  doc[i].kind = "ref" => \E j \in 1..(i - 1) : doc[j].kind = "Table"

\* the document of the whole project, in which the order of the names differs
\* from the order in which the models were processed
C9_Witness ==
    /\ pc = "done"
    /\ app_labels = <<>>
    /\ Len(LinesOf(output_string, "Table")) >= 9
    /\ Len(LinesOf(output_string, "enum")) >= 2
    /\ Len(LinesOf(output_string, "ref")) >= 5
    /\ NamesOf(output_string, "Table")[1] # NameOf(Processed(1))

\* both runs of the command went through to the end
BothRunsDone == prior.ran /\ prior.pc = "done" /\ pc = "done"

\* what the second run printed and left in the file is what the first did
SameOutput == stdout = prior.stdout /\ file = prior.file

IsListedAcronym(word) == word \in { <<"I","P">>, <<"U","R","L">>, <<"U","U","I","D">>, <<"J","S","O","N">> }

\* the words of a class name without a trailing Field
WithoutFieldSuffix(words) ==
    IF words[Len(words)] = <<"F","i","e","l","d">> THEN SubSeq(words, 1, Len(words) - 1) ELSE words

\* a word in the type tag: a listed acronym as one token, any other word with
\* an underscore before every upper-case letter after its first, in lower case
WordTag(word) ==
    IF IsListedAcronym(word) THEN StrLower(word)
    ELSE StrLower(SnakeSub(word, 1))

\* C11: the type tag of a field class is made from the words of its name
\* without a trailing Field: the words in lower case joined by underscores,
\* each occurrence of IP, URL, UUID and JSON as one token wherever it stands,
\* every other word split before its non-initial upper-case letters, and
\* no two words merged.
C11_TypeTagOfWords ==
    pc = "typed" =>
        type_tag =
            Join([i \in DOMAIN WithoutFieldSuffix(field_words) |->
                     WordTag(WithoutFieldSuffix(field_words)[i])], <<"_">>)

\* the fields of a model that become columns of its table, in order
ColumnFields(model) ==
    SelectSeq(model.fields,
        LAMBDA f : f.cls \notin {<<"M","a","n","y","T","o","O","n","e","R","e","l">>, <<"O","n","e","T","o","O","n","e","R","e","l">>,
                                 <<"M","a","n","y","T","o","M","a","n","y","R","e","l">>, <<"M","a","n","y","T","o","M","a","n","y","F","i","e","l","d">>})

\* the name of the column of such a field
ColumnNameOf(f) == IF IsLink(f) THEN f.name \o <<"_","i","d">> ELSE f.name

\* primary key, unique (Field.unique is true of a primary key) or db_index
WantsIndex(f) == f.primary_key \/ f.unique \/ f.db_index

\* C12 as amended: the index list of the table of every processed model is,
\* in this order: one single-column entry for each column whose field is a
\* primary key, unique or marked db_index, in field order, with the pk and
\* unique flags of the field, and none for the other columns; then one entry
\* per table-level index; then one unique entry per unique_together
\* constraint. A table-level index on one column is a further single-column
\* entry for that column.
C12_FieldIndexesThenTableIndexes ==
    Collecting =>
        \A table_name \in ProcessedNames :
            LET model   == LastModelNamed(table_name)
                indexed == SelectSeq(ColumnFields(model), WantsIndex)
                idx     == tables[table_name].indexes
                n       == Len(indexed)
                meta    == Len(model.indexes)
            IN  /\ Len(idx) = n + meta + Len(model.unique_together)
                /\ \A k \in 1..n :
                      /\ idx[k].fields = <<ColumnNameOf(indexed[k])>>
                      /\ idx[k].pk = indexed[k].primary_key
                      /\ idx[k].unique = (indexed[k].unique \/ indexed[k].primary_key)
                /\ \A k \in DOMAIN model.indexes :
                      /\ idx[n + k].name = model.indexes[k].name
                      /\ Len(idx[n + k].fields) = Len(model.indexes[k].fields)
                      /\ ~idx[n + k].pk /\ ~idx[n + k].unique
                /\ \A k \in DOMAIN model.unique_together :
                      /\ Len(idx[n + meta + k].fields) = Len(model.unique_together[k])
                      /\ idx[n + meta + k].unique /\ ~idx[n + meta + k].pk

\* C12 as stated: for each column of a processed model the index list of the
\* table has a single-column entry for the column if and only if the field is
\* a primary key, unique or marked db_index, and then exactly one, with the
\* flags of the field.
C12_OneSingleColumnEntryIffIndexed ==
    Collecting =>
        \A table_name \in ProcessedNames :
            LET cols == ColumnFields(LastModelNamed(table_name))
                idx  == tables[table_name].indexes
            IN  \A c \in DOMAIN cols :
                    LET entries == {k \in DOMAIN idx :
                                       idx[k].fields = <<ColumnNameOf(cols[c])>>}
                    IN  /\ (entries # {}) <=> WantsIndex(cols[c])
                        /\ WantsIndex(cols[c]) =>
                              /\ Cardinality(entries) = 1
                              /\ \A k \in entries :
                                    /\ idx[k].pk = cols[c].primary_key
                                    /\ idx[k].unique =
                                          (cols[c].unique \/ cols[c].primary_key)

\* Author, with a unique field that is not marked db_index, and Article, with
\* a table-level index and a unique_together constraint, have been processed
C12_Witness ==
    /\ Collecting
    /\ \E i \in 1..(pos - 1) :
          /\ Processed(i).object_name = <<"A","u","t","h","o","r">>
          /\ \E k \in DOMAIN tables[NameOf(Processed(i))].indexes :
                LET e == tables[NameOf(Processed(i))].indexes[k]
                IN  e.fields = << <<"n","a","m","e">> >> /\ e.unique /\ ~e.pk
    /\ \E i \in 1..(pos - 1) :
          /\ Processed(i).object_name = <<"A","r","t","i","c","l","e">>
          /\ Processed(i).indexes # <<>>
          /\ Processed(i).unique_together # <<>>
          /\ Len(tables[NameOf(Processed(i))].indexes) >= 5

\* the module of a model that names its group: the last but one part of
\* __module__, or the only one
OwningModule(model) ==
    LET parts == Split(model.module, ".")
    IN  IF Len(parts) >= 2 THEN parts[Len(parts) - 1] ELSE parts[1]

\* the groups a table may be listed under: that of its model, or, for a
\* linking table, that of the model declaring the many-to-many field
GroupsOf(table_name) ==
    IF table_name \in ProcessedNames
    THEN {OwningModule(LastModelNamed(table_name))}
    ELSE UNION {{OwningModule(ModelOf(installed, Processed(i).fields[k].model)) :
                    k \in {k \in DOMAIN Processed(i).fields :
                              /\ IsManyToMany(Processed(i).fields[k])
                              /\ ReplaceFirst(Processed(i).fields[k].m2m_db_table,
                                              "_", ".") = table_name}} :
                  i \in 1..(pos - 1)}

\* the name of the TableGroup block a line at position k of the document is in
GroupAt(doc, k) ==
    LET heads == {j \in 1..k : doc[j].kind = "TableGroup"}
    IN  doc[CHOOSE j \in heads : \A h \in heads : h <= j].name

\* C13: the mapping of tables to group and colour has at every moment the
\* keys of the table collection; the document has TableGroup blocks only when
\* group_by_app is set, and then every table of the document is listed in
\* exactly one block, the one named after the owning module of its model
\* (for a linking table: of the model declaring the field), and the blocks
\* list nothing else.
C13_EveryTableInItsGroup ==
    /\ DOMAIN table_colors_and_groups = DOMAIN tables
    /\ Rendered =>
          LET doc == output_string
              members == {k \in DOMAIN doc : doc[k].kind = "member"}
          IN  /\ ~options.group_by_app =>
                    /\ members = {}
                    /\ \A k \in DOMAIN doc : doc[k].kind # "TableGroup"
              /\ options.group_by_app =>
                    /\ \A i \in DOMAIN doc :
                          doc[i].kind = "Table" =>
                              LET listed == {k \in members : doc[k].name = doc[i].name}
                              IN  /\ Cardinality(listed) = 1
                                  /\ \A k \in listed :
                                        GroupsOf(doc[i].name) = {GroupAt(doc, k)}
                    /\ \A k \in members :
                          \E i \in DOMAIN doc :
                              doc[i].kind = "Table" /\ doc[i].name = doc[k].name

\* the document has a Table block of that name with a column of that name
HasColumn(doc, table_name, column) ==
    \E i \in DOMAIN doc :
        /\ doc[i].kind = "Table"
        /\ doc[i].name = table_name
        /\ \E k \in DOMAIN BlockAt(doc, i) :
              /\ BlockAt(doc, i)[k].kind = "column"
              /\ BlockAt(doc, i)[k].name = column

\* C14: in the document of a run without selectors both ends of every ref
\* line name a table that has a Table block in the document and a column
\* that the block emits under exactly that name.
C14_RefsClosedOverDocument ==
    (Rendered /\ app_labels = <<>>) =>
        \A i \in DOMAIN output_string :
            output_string[i].kind = "ref" =>
                /\ HasColumn(output_string, output_string[i].args[1],
                                             output_string[i].args[2])
                /\ HasColumn(output_string, output_string[i].args[4],
                                             output_string[i].args[5])

====
